---- MODULE Spec2Model ----
(***************************************************************************)
(* The paginated review harvester of the two notebooks:                    *)
(*   boardgamegeek_reviews.ipynb       (XML API source,  source = "api")   *)
(*   trustpilot notebook (part_000)    (HTML source,     source = "html")  *)
(* One behaviour of the model is one run of one notebook.  The remote      *)
(* server is the environment: the pages it holds are fixed when the run    *)
(* starts (site), the failures of single requests are chosen at each fetch.*)
(***************************************************************************)
EXTENDS Integers, Sequences, FiniteSets, TLC

\* Number of parent entities in the seed list.
NumEntities == 2

\* checkThreshold of the API notebook (100000 there), scaled to the model.
checkThreshold == 3

\* The literal 3 of "if requestErrorCount >= 3".
ErrorCeiling == 3

Entities == 0 .. (NumEntities - 1)

(***************************************************************************)
(* Values.  A text is a record: present = FALSE is Python's None (or a     *)
(* missing element); words is what it holds besides markup: "en" or "fr"   *)
(* (words of that language), "digits" (characters without language         *)
(* features), "spaces" (whitespace only) or "" (nothing); markup tells     *)
(* whether it also holds [url]/[tag]/http markup.                          *)
(***************************************************************************)
NoText == [present |-> FALSE, words |-> "", markup |-> FALSE]
Txt(words, markup) == [present |-> TRUE, words |-> words, markup |-> markup]

\* A rating attribute: a numeric string, a non-numeric string, or absent.
Num(n) == [kind |-> "num", num |-> n]
NotANumber == [kind |-> "text", num |-> 0]
NoRating == [kind |-> "missing", num |-> 0]

Comment(rating, text) == [rating |-> rating, text |-> text]

\* Candidate comments the API pages of the model are made of.
cGood  == Comment(Num(7), Txt("en", TRUE))
cHigh  == Comment(Num(11), Txt("en", FALSE))
cFr    == Comment(Num(7), Txt("fr", FALSE))
cShort == Comment(Num(10), Txt("", TRUE))
cNoRt  == Comment(NoRating, Txt("en", FALSE))
cNoTxt == Comment(Num(1), NoText)

\* The page sequences an API entity can have; every later page has no comment.
APIProfiles ==
    { << >>,
      << <<cGood>> >>,
      << <<cGood, cHigh>>, <<cFr, cGood>> >>,
      << <<cShort, cNoRt>> >>,
      << <<cGood>>, <<cGood, cNoTxt>> >> }

\* A review card of an HTML page: whether it has a rating element, its title
\* element and its text element.
Card(rating, title, text) == [rating |-> rating, title |-> title, text |-> text]

hGood  == Card(TRUE, Txt("en", FALSE), NoText)
hFr    == Card(TRUE, Txt("fr", FALSE), NoText)
hFrEn  == Card(TRUE, Txt("fr", FALSE), Txt("en", FALSE))
hMix   == Card(TRUE, Txt("digits", FALSE), Txt("en", FALSE))
hNoRt  == Card(FALSE, Txt("en", FALSE), Txt("en", FALSE))
hBlank == Card(TRUE, Txt("spaces", FALSE), NoText)

\* An HTML page: whether it has the business-unit-title element, and its cards.
\* A page has a "next" link exactly when it is not the entity's last page.
Page(title, cards) == [title |-> title, cards |-> cards]

HTMLProfiles ==
    { << Page(TRUE, <<hGood>>) >>,
      << Page(TRUE, <<hGood, hFr>>), Page(TRUE, << >>), Page(TRUE, <<hFrEn>>) >>,
      << Page(FALSE, <<hMix, hNoRt>>) >>,
      << Page(FALSE, <<hBlank>>), Page(TRUE, <<hGood>>) >>,
      << Page(TRUE, << >>) >> }

\* What a response with an error status holds: no title, no card, no link.
ErrorPage == Page(FALSE, << >>)

EmptyName == << >>
\* business_name before its first assignment.
Unbound == [entity |-> -1, tail |-> FALSE]
\* url = None
NoUrl == 0
\* The coordinator's variable before get_business_reviews returned a value.
NoResult == [business_name |-> Unbound, reviews |-> << >>]
GameID(i) == 100 + i
NameOf(i) == << "name", i >>

\* What getData returns: None, or {'game_name': ..., 'reviews': ...}.
NoneResult == [none |-> TRUE, game_name |-> EmptyName, reviews |-> << >>]
Result(name, revs) == [none |-> FALSE, game_name |-> name, reviews |-> revs]

VARIABLES
    source,             \* "api" or "html": which notebook runs
    site,               \* the server: entity index -> its sequence of pages
    pc,                 \* "loop", "driver", "handle", "cleaned", "finished", ...
    \* main cell of the API notebook
    index, reprocess, reprocessIndex, reprocessIDs,
    totalSaved, checkCount, gameReviews,
    all_reviews,        \* the global buffer
    outputFile,         \* what the output file holds
    \* locals of getData
    pgCount, reviewData, gameName, keepGoing, requestErrorCount,
    \* history
    current,            \* the entity the driver was last invoked on (-1: none)
    invoked, skipped,   \* entity indexes the loop called the driver on / skipped
    fetches,            \* requests made by the current invocation
    consec,             \* failed fetches since the last successfully processed page
    ended,              \* how the invocation ended: "", "done", "ceiling",
                        \* "exception" (API), "break" (HTML)
    transport,          \* requests of the invocation that failed in transport
    lastFetch,          \* outcome of the invocation's latest request: "", "ok",
                        \* "raise", "status", "parse", "filter"
    lastPage,           \* the page that request asked for
    failed,             \* some request or page of the session failed
    run,                \* 1: first execution of the main cell, 2: re-execution
    \* locals of get_business_reviews, and the value it returned
    url, reviews_data, business_name, reviews,
    lastEvent,          \* history: the latest of "fetch" (a request), "page" (the
                        \* sleep between two pages), "entity" (the sleep between
                        \* two entities); "" before the first of them
    \* scrape_category_page: the category listing the server holds, and the
    \* function's locals
    category, current_page_url, business_urls

apiMain == << index, reprocess, reprocessIndex, reprocessIDs,
              totalSaved, checkCount, gameReviews >>
apiLocals == << pgCount, reviewData, gameName, keepGoing, requestErrorCount >>
fetchLog == << fetches, consec, transport, lastFetch, lastPage, failed >>
history == << current, invoked, skipped, ended, run, fetchLog >>
htmlLocals == << url, reviews_data, business_name, reviews >>
walkVars == << category, current_page_url, business_urls >>
vars == << source, site, pc, apiMain, all_reviews, outputFile, apiLocals, history,
           htmlLocals, lastEvent, walkVars >>

(***************************************************************************)
(* Helper functions of the API notebook.                                   *)
(***************************************************************************)
\* A range test that leaves both bounds out.
checkNumericInside(val, min, max) ==
    IF val.kind = "num" THEN (min < val.num /\ val.num < max) ELSE FALSE

\* float(val) fails on None and on a non-numeric string: not in range.
checkNumericRange(val, min, max) ==
    IF val.kind = "num" THEN (min <= val.num /\ val.num <= max) ELSE FALSE

\* re.sub on None raises TypeError, which removeMarkup swallows: None comes back.
removeMarkup(txt) ==
    IF txt.present THEN [txt EXCEPT !.markup = FALSE] ELSE txt

\* langdetect.detect: a language, LangDetectException on a text without
\* features, TypeError on None.
detect(txt) ==
    IF ~txt.present THEN "TypeError"
    ELSE IF txt.words \in {"en", "fr"} THEN txt.words
    ELSE "LangDetectException"

\* The "for comment in comments" loop: the records appended to acc, and whether
\* an exception other than LangDetectException left the loop.
RECURSIVE FilterComments(_, _)
FilterComments(comments, acc) ==
    IF comments = << >> THEN [reviewData |-> acc, raised |-> FALSE]
    ELSE LET comment == Head(comments)
             dummy == comment.rating
         IN  IF checkNumericRange(dummy, 1, 10)
             THEN LET txt == removeMarkup(comment.text)
                      lang == detect(txt)
                  IN  IF lang = "TypeError"
                      THEN [reviewData |-> acc, raised |-> TRUE]
                      ELSE IF lang = "en"
                      THEN FilterComments(Tail(comments),
                               Append(acc, [rating |-> dummy, review_text |-> txt]))
                      ELSE FilterComments(Tail(comments), acc)
             ELSE FilterComments(Tail(comments), acc)

\* The <comment> elements of page pg of entity e.
CommentsAt(e, pg) ==
    IF pg <= Len(site[e]) THEN site[e][pg] ELSE << >>

\* History of a request for page pg that ended as outcome.
Fetched(outcome, pg) ==
    /\ fetches' = fetches + 1
    /\ lastFetch' = outcome
    /\ lastPage' = pg
    /\ consec' = IF outcome = "ok" THEN 0 ELSE consec + 1
    /\ transport' = IF outcome \in {"raise", "status"} THEN transport + 1 ELSE transport
    /\ failed' = (failed \/ outcome # "ok")

\* History of a call of the driver on entity e.
Called(e) ==
    /\ current' = e
    /\ invoked' = invoked \cup {e}
    /\ fetches' = 0
    /\ consec' = 0
    /\ transport' = 0
    /\ lastFetch' = ""
    /\ lastPage' = 0
    /\ ended' = ""
    /\ UNCHANGED << skipped, failed, run >>

\* time.sleep(random.uniform(a, b)): what the model keeps of a sleep is where
\* it is made.
sleep(kind) == lastEvent' = kind

\* A request that no sleep follows before the driver's next step.
NoSleep == lastEvent' = "fetch"

\* An iteration of "while keepGoing" / "while url" that makes no sleep.
NoInterPageWait == NoSleep

\* "time.sleep(random.uniform(5, 10))" after "pgCount += 1";
\* "time.sleep(random.uniform(2, 7))" at the end of the try block of "while url".
InterPageWait == sleep("page")

\* An iteration of the main loop that ends without a sleep.
NoInterEntityWait == UNCHANGED lastEvent

\* "time.sleep(random.uniform(5, 10))" before "continue" and at the end of the
\* API main loop; "time.sleep(random.uniform(30, 60))" at the end of the HTML one.
InterEntityWait == sleep("entity")

\* A flush on a file opened with 'a': the buffer is written after what the file
\* holds.
flushBufferAppend(buffer) == outputFile' = outputFile \o buffer

\* A flush that also writes the name and the records getData holds.
flushBufferAndLocals(buffer) ==
    outputFile' = Append(buffer, [game_name |-> gameName, reviews |-> reviewData])

\* flushBuffer(): the file is opened with 'w' and the whole buffer dumped.
flushBuffer(buffer) == outputFile' = buffer

(***************************************************************************)
(* Initial state: the global cells and the head of the main cell.          *)
(***************************************************************************)
Init ==
    /\ source \in {"api", "html"}
    /\ site \in [Entities -> IF source = "api" THEN APIProfiles ELSE HTMLProfiles]
    /\ pc = "loop"
    /\ index = 0
    /\ reprocess \in (IF source = "api" THEN BOOLEAN ELSE {FALSE})
    /\ reprocessIndex \in 0 .. NumEntities
    /\ reprocessIDs \in SUBSET {GameID(i) : i \in Entities}
    /\ (~reprocess => reprocessIndex = 0 /\ reprocessIDs = {})
    /\ totalSaved = 0
    /\ checkCount = 0
    /\ gameReviews = NoneResult
    /\ all_reviews = << >>
    /\ outputFile = << >>
    /\ pgCount = 1
    /\ reviewData = << >>
    /\ gameName = EmptyName
    /\ keepGoing = FALSE
    /\ requestErrorCount = 0
    /\ current = -1
    /\ invoked = {}
    /\ skipped = {}
    /\ fetches = 0
    /\ consec = 0
    /\ ended = ""
    /\ transport = 0
    /\ lastFetch = ""
    /\ lastPage = 0
    /\ failed = FALSE
    /\ run = 1
    /\ url = NoUrl
    /\ reviews_data = << >>
    /\ business_name = Unbound
    /\ reviews = NoResult
    /\ lastEvent = ""
    /\ category = << >>
    /\ current_page_url = NoUrl
    /\ business_urls = << >>

(***************************************************************************)
(* Main cell of the API notebook.                                          *)
(***************************************************************************)
\* "if reprocess and (index < reprocessIndex or (not (gameID in reprocessIDs)))"
SkipCond(i) ==
    reprocess /\ (i < reprocessIndex \/ ~(GameID(i) \in reprocessIDs))

SkipEntity ==
    /\ source = "api" /\ pc = "loop" /\ index < NumEntities
    /\ SkipCond(index)
    /\ index' = index + 1
    /\ skipped' = skipped \cup {index}
    /\ UNCHANGED << source, site, pc, reprocess, reprocessIndex, reprocessIDs,
                    totalSaved, checkCount, gameReviews, all_reviews, outputFile,
                    apiLocals, htmlLocals, current, invoked, ended, run, fetchLog,
                    lastEvent, walkVars >>

\* gameReviews = getData(gameID): the initialisation of getData's locals.
CallGetData ==
    /\ source = "api" /\ pc = "loop" /\ index < NumEntities
    /\ ~SkipCond(index)
    /\ pc' = "driver"
    /\ pgCount' = 1
    /\ reviewData' = << >>
    /\ gameName' = EmptyName
    /\ keepGoing' = TRUE
    /\ requestErrorCount' = 0
    /\ Called(index)
    /\ UNCHANGED << source, site, apiMain, all_reviews, outputFile, htmlLocals,
                    lastEvent, walkVars >>

(***************************************************************************)
(* getData: one action per way an iteration of "while keepGoing" can go.   *)
(* An iteration that clears keepGoing also returns.                        *)
(***************************************************************************)
InDriver == source = "api" /\ pc = "driver" /\ keepGoing

\* What no iteration of getData touches.
apiFrame == << source, site, index, reprocess, reprocessIndex, reprocessIDs,
               totalSaved, checkCount, all_reviews, outputFile, htmlLocals,
               current, invoked, skipped, run, walkVars >>

\* An error count that ends the loop at the fourth error.
CountErrorFour(name, data) ==
    /\ requestErrorCount' = requestErrorCount + 1
    /\ IF requestErrorCount + 1 >= ErrorCeiling + 1
       THEN /\ keepGoing' = FALSE
            /\ gameReviews' = Result(name, data)
            /\ pc' = "handle"
            /\ ended' = "ceiling"
       ELSE /\ UNCHANGED << keepGoing, gameReviews, pc, ended >>

\* "requestErrorCount += 1; if requestErrorCount >= 3: keepGoing = False",
\* then "return {'game_name': gameName, 'reviews': reviewData}" once the loop ends.
CountError(name, data) ==
    /\ requestErrorCount' = requestErrorCount + 1
    /\ IF requestErrorCount + 1 >= ErrorCeiling
       THEN /\ keepGoing' = FALSE
            /\ gameReviews' = Result(name, data)
            /\ pc' = "handle"
            /\ ended' = "ceiling"
       ELSE /\ UNCHANGED << keepGoing, gameReviews, pc, ended >>

\* requests.get raises (connection error, timeout): the outer except returns None.
RequestRaises ==
    /\ InDriver
    /\ Fetched("raise", pgCount)
    /\ gameReviews' = NoneResult
    /\ pc' = "handle"
    /\ ended' = "exception"
    /\ NoSleep
    /\ UNCHANGED << apiFrame, apiLocals >>

\* resp.status_code != 200.
Non200 ==
    /\ InDriver
    /\ Fetched("status", pgCount)
    /\ CountError(gameName, reviewData)
    /\ NoSleep
    /\ UNCHANGED << apiFrame, pgCount, reviewData, gameName >>

\* A parse failure after which the driver goes on to the next page.
ParseFailsSkipsPage ==
    /\ InDriver
    /\ Fetched("parse", pgCount)
    /\ CountError(gameName, reviewData)
    /\ NoSleep
    /\ pgCount' = pgCount + 1
    /\ UNCHANGED << apiFrame, reviewData, gameName >>

\* etree.fromstring raises on a malformed document.
ParseFails ==
    /\ InDriver
    /\ Fetched("parse", pgCount)
    /\ CountError(gameName, reviewData)
    /\ NoSleep
    /\ UNCHANGED << apiFrame, pgCount, reviewData, gameName >>

\* The name is read when pgCount == 1 and the page has comments.
NameAfterPage == IF pgCount = 1 THEN NameOf(current) ELSE gameName

\* A page with comments, all of them filtered without an exception.
PageProcessed ==
    /\ InDriver
    /\ LET comments == CommentsAt(current, pgCount)
           r == FilterComments(comments, reviewData)
       IN  /\ Len(comments) > 0
           /\ ~r.raised
           /\ gameName' = NameAfterPage
           /\ reviewData' = r.reviewData
           /\ pgCount' = pgCount + 1
    /\ Fetched("ok", pgCount)
    /\ InterPageWait
    /\ UNCHANGED << apiFrame, pc, gameReviews, keepGoing, requestErrorCount, ended >>

\* A page with comments where filtering one of them raises (detect(None)):
\* the records appended so far stay, the inner except counts an error, and
\* pgCount is not advanced.
PageFilterRaises ==
    /\ InDriver
    /\ LET comments == CommentsAt(current, pgCount)
           r == FilterComments(comments, reviewData)
       IN  /\ Len(comments) > 0
           /\ r.raised
           /\ reviewData' = r.reviewData
           /\ CountError(NameAfterPage, r.reviewData)
    /\ gameName' = NameAfterPage
    /\ Fetched("filter", pgCount)
    /\ NoSleep
    /\ UNCHANGED << apiFrame, pgCount >>

\* A page without comments taken for a failed one: counted, and asked for again.
PageEmptyCounted ==
    /\ InDriver
    /\ Len(CommentsAt(current, pgCount)) = 0
    /\ CountError(gameName, reviewData)
    /\ Fetched("ok", pgCount)
    /\ NoSleep
    /\ UNCHANGED << apiFrame, pgCount, reviewData, gameName >>

\* A page without comments: keepGoing = False, and the result is returned.
PageEmpty ==
    /\ InDriver
    /\ Len(CommentsAt(current, pgCount)) = 0
    /\ keepGoing' = FALSE
    /\ gameReviews' = Result(gameName, reviewData)
    /\ pc' = "handle"
    /\ ended' = "done"
    /\ Fetched("ok", pgCount)
    /\ NoSleep
    /\ UNCHANGED << apiFrame, pgCount, reviewData, gameName, requestErrorCount >>

(***************************************************************************)
(* Main cell, after getData returned.                                      *)
(***************************************************************************)
Entry(res) == [game_name |-> res.game_name, reviews |-> res.reviews]

\* "if checkCount >= checkThreshold", with a strict comparison.
FlushDueStrict(count) == count > checkThreshold

\* "if checkCount >= checkThreshold"
FlushDue(count) == count >= checkThreshold

\* "if len(gameReviews['reviews']) >= 0": a test that lets empty results in.
HasReviewsOrNone(res) == Len(res.reviews) >= 0

\* "if len(gameReviews['reviews']) > 0" / "if len(reviews['reviews']) > 0"
HasReviews(res) == Len(res.reviews) > 0

HandleResult ==
    /\ source = "api" /\ pc = "handle"
    /\ pc' = "loop"
    /\ index' = index + 1
    /\ IF gameReviews.none
       THEN UNCHANGED << totalSaved, checkCount, all_reviews, outputFile >>
       ELSE IF HasReviews(gameReviews)
       THEN /\ totalSaved' = totalSaved + Len(gameReviews.reviews)
            /\ all_reviews' = Append(all_reviews, Entry(gameReviews))
            /\ IF FlushDue(checkCount + Len(gameReviews.reviews))
               THEN /\ flushBuffer(all_reviews')
                    /\ checkCount' = 0
               ELSE /\ checkCount' = checkCount + Len(gameReviews.reviews)
                    /\ UNCHANGED outputFile
       ELSE UNCHANGED << totalSaved, checkCount, all_reviews, outputFile >>
    /\ InterEntityWait
    /\ UNCHANGED << htmlLocals, source, site, reprocess, reprocessIndex, reprocessIDs,
                    gameReviews, apiLocals, history, walkVars >>

\* A wrap-up cell that writes only when the threshold asks for it.
WrapUpIfDue ==
    /\ source = "api" /\ pc = "loop" /\ index = NumEntities
    /\ IF FlushDue(checkCount) THEN flushBuffer(all_reviews) ELSE UNCHANGED outputFile
    /\ pc' = "finished"
    /\ UNCHANGED << htmlLocals, source, site, apiMain, all_reviews, apiLocals, history,
                    lastEvent, walkVars >>

\* The wrap-up cell: flushBuffer().
WrapUp ==
    /\ source = "api" /\ pc = "loop" /\ index = NumEntities
    /\ flushBuffer(all_reviews)
    /\ pc' = "finished"
    /\ UNCHANGED << htmlLocals, source, site, apiMain, all_reviews, apiLocals, history,
                    lastEvent, walkVars >>

(***************************************************************************)
(* The HTML notebook: get_business_reviews.                                *)
(***************************************************************************)
\* element.text.strip()
Strip(txt) ==
    IF txt.present /\ txt.words = "spaces" THEN [txt EXCEPT !.words = ""] ELSE txt

\* Python's truth value of a stripped text (None and '' are false).
Truthy(txt) == txt.present /\ txt.words # ""

\* A test that takes any non-empty title or text, whatever its language.
AnyText(ttl, txt) == Truthy(ttl) \/ Truthy(txt)

\* "(ttl and detect(ttl)=='en') or (txt and detect(txt)=='en')", evaluated left
\* to right; a LangDetectException raised by either detect leaves the card out.
EnglishTest(ttl, txt) ==
    LET second == IF Truthy(txt) THEN detect(txt) = "en" ELSE FALSE
    IN  IF Truthy(ttl)
        THEN IF detect(ttl) = "LangDetectException" THEN FALSE
             ELSE IF detect(ttl) = "en" THEN TRUE
             ELSE second
        ELSE second

\* The body of "for review in soup.find_all('article', ...)" for one card.
AdmitCard(review) ==
    /\ review.rating
    /\ (review.text.present \/ review.title.present)
    /\ EnglishTest(Strip(review.title), Strip(review.text))

RECURSIVE FilterCards(_, _)
FilterCards(cards, acc) ==
    IF cards = << >> THEN acc
    ELSE LET review == Head(cards)
         IN  IF AdmitCard(review)
             THEN FilterCards(Tail(cards),
                      Append(acc, [rating |-> review.rating,
                                   review_title |-> Strip(review.title),
                                   review_text |-> Strip(review.text)]))
             ELSE FilterCards(Tail(cards), acc)

\* The text of the business-unit-title element: the name of business e, followed
\* (tail) by the word "Reviews" and what the page shows after it.
TitleOf(e) == [entity |-> e, tail |-> TRUE]

\* The seed list is sorted by volume, largest first: gameIDs by
\* sort_values(by='usersrated', ascending=False), business_urls by the listing's
\* sort=reviews_count.  The expected volume of the list's entry e:
Volume(e) == NumEntities - e

\* A loop over business_urls as it is.
Forward(i) == i

\* "for url in reversed(business_urls)": the entity of the loop's index-th turn.
Reversed(i) == NumEntities - 1 - i

\* What no turn of get_business_reviews touches.
htmlFrame == << source, site, apiMain, all_reviews, outputFile, apiLocals,
                current, invoked, skipped, run, walkVars >>

\* reviews = get_business_reviews(url): the call and the function's first lines.
TPCall ==
    /\ source = "html" /\ pc = "loop" /\ index < NumEntities
    /\ pc' = "driver"
    /\ url' = 1
    /\ reviews_data' = << >>
    /\ business_name' = Unbound
    /\ Called(Reversed(index))
    /\ UNCHANGED << source, site, apiMain, all_reviews, outputFile, apiLocals,
                    reviews, lastEvent, walkVars >>

\* "return {'business_name': business_name, 'reviews': reviews_data}": reading
\* business_name before any assignment raises UnboundLocalError, which nothing
\* around the call catches.
TPReturn(name, data) ==
    IF name = Unbound
    THEN pc' = "crashed" /\ UNCHANGED reviews
    ELSE pc' = "handle" /\ reviews' = [business_name |-> name, reviews |-> data]

\* requests.get raises RequestException, or another exception is raised before
\* the page is read: "break", then the return.
TPRaises ==
    /\ source = "html" /\ pc = "driver" /\ url # NoUrl
    /\ Fetched("raise", url)
    /\ ended' = "break"
    /\ TPReturn(business_name, reviews_data)
    /\ NoSleep
    /\ UNCHANGED << htmlFrame, url, reviews_data, business_name >>

\* One turn of "while url" on the page the response holds.
TPProcess(page, hasNext) ==
    LET name == IF reviews_data = << >> /\ page.title
                THEN TitleOf(current) ELSE business_name
        data == FilterCards(page.cards, reviews_data)
        next == IF hasNext THEN url + 1 ELSE NoUrl
    IN  /\ business_name' = name
        /\ reviews_data' = data
        /\ url' = next
        /\ InterPageWait
        /\ IF next = NoUrl
           THEN ended' = "done" /\ TPReturn(name, data)
           ELSE UNCHANGED << ended, pc, reviews >>

\* The page is fetched; response.status_code is never looked at.
TPPage ==
    /\ source = "html" /\ pc = "driver" /\ url # NoUrl
    /\ TPProcess(site[current][url], url < Len(site[current]))
    /\ Fetched("ok", url)
    /\ UNCHANGED htmlFrame

\* The server answers with an error status: its body is parsed like a page.
TPErrorStatus ==
    /\ source = "html" /\ pc = "driver" /\ url # NoUrl
    /\ TPProcess(ErrorPage, FALSE)
    /\ Fetched("status", url)
    /\ UNCHANGED htmlFrame

\* A main loop that puts the result at the head of the buffer.
TPHandlePrepend ==
    /\ source = "html" /\ pc = "handle"
    /\ pc' = "loop"
    /\ index' = index + 1
    /\ all_reviews' = IF HasReviews(reviews)
                      THEN << reviews >> \o all_reviews ELSE all_reviews
    /\ InterEntityWait
    /\ UNCHANGED << source, site, reprocess, reprocessIndex, reprocessIDs,
                    totalSaved, checkCount, gameReviews, outputFile, apiLocals,
                    history, htmlLocals, walkVars >>

\* "if len(reviews['reviews']) > 0: all_reviews.append(reviews)", then the sleep.
TPHandle ==
    /\ source = "html" /\ pc = "handle"
    /\ pc' = "loop"
    /\ index' = index + 1
    /\ all_reviews' = IF HasReviews(reviews)
                      THEN Append(all_reviews, reviews) ELSE all_reviews
    /\ InterEntityWait
    /\ UNCHANGED << source, site, reprocess, reprocessIndex, reprocessIDs,
                    totalSaved, checkCount, gameReviews, outputFile, apiLocals,
                    history, htmlLocals, walkVars >>

\* rvw['business_name'] = txt.split("Reviews")[0].replace(nbsp, '')
CleanName(name) == [name EXCEPT !.tail = FALSE]

\* The clean-up cell, run after the loop: the name of every entry of the buffer
\* is rewritten in place.
TPClean ==
    /\ source = "html" /\ pc = "loop" /\ index = NumEntities
    /\ all_reviews' = [i \in 1 .. Len(all_reviews) |->
                          [all_reviews[i] EXCEPT !.business_name = CleanName(@)]]
    /\ pc' = "cleaned"
    /\ UNCHANGED << source, site, apiMain, outputFile, apiLocals, history, htmlLocals,
                    lastEvent, walkVars >>

\* The save cell: json.dump(all_reviews, file) on a file opened with 'w'.
TPSave ==
    /\ source = "html" /\ pc = "cleaned"
    /\ flushBuffer(all_reviews)
    /\ pc' = "finished"
    /\ UNCHANGED << source, site, apiMain, all_reviews, apiLocals, history, htmlLocals,
                    lastEvent, walkVars >>

Next ==
    \/ SkipEntity
    \/ CallGetData
    \/ RequestRaises
    \/ Non200
    \/ ParseFails
    \/ PageProcessed
    \/ PageFilterRaises
    \/ PageEmpty
    \/ HandleResult
    \/ WrapUp
    \/ TPCall
    \/ TPRaises
    \/ TPPage
    \/ TPErrorStatus
    \/ TPHandle
    \/ TPClean
    \/ TPSave

Spec == Init /\ [][Next]_vars

(***************************************************************************)
(* Restarting an interrupted run of the API notebook ("There is also a     *)
(* mechanism to restart/continue interrupted runs by using the reprocess,  *)
(* reprocessIndex, and reprocessIDs variables"): the main cell is stopped  *)
(* between two entities, the three variables are edited and the cell is    *)
(* executed again in the same kernel, so all_reviews keeps its contents.   *)
(***************************************************************************)
Interrupt ==
    /\ source = "api" /\ pc = "loop" /\ run = 1 /\ index < NumEntities
    /\ pc' = "interrupted"
    /\ UNCHANGED << source, site, apiMain, all_reviews, outputFile, apiLocals,
                    htmlLocals, history, lastEvent, walkVars >>

\* The cell is executed again with reprocess = True and reprocessIndex set to the
\* index the first execution stopped at; reprocessIDs is left empty or lists the
\* identifiers of the entities from that index on.
Rerun ==
    /\ source = "api" /\ pc = "interrupted"
    /\ pc' = "loop"
    /\ run' = 2
    /\ reprocess' = TRUE
    /\ reprocessIndex' = index
    /\ reprocessIDs' \in { {}, {GameID(i) : i \in index .. (NumEntities - 1)} }
    /\ index' = 0
    /\ totalSaved' = 0
    /\ checkCount' = 0
    /\ invoked' = {}
    /\ skipped' = {}
    /\ UNCHANGED << source, site, gameReviews, all_reviews, outputFile, apiLocals,
                    htmlLocals, current, ended, fetchLog, lastEvent, walkVars >>

InitResume == Init /\ source = "api" /\ ~reprocess

NextResume ==
    \/ SkipEntity
    \/ CallGetData
    \/ RequestRaises
    \/ Non200
    \/ ParseFails
    \/ PageProcessed
    \/ PageFilterRaises
    \/ PageEmpty
    \/ HandleResult
    \/ WrapUp
    \/ Interrupt
    \/ Rerun

SpecResume == InitResume /\ [][NextResume]_vars

(***************************************************************************)
(* A run of the API notebook that is not held up: the kernel goes on       *)
(* executing the cell, and every request it makes comes back (with a page, *)
(* an error status or an exception), so a step that can be taken is taken. *)
(* The run is one with reprocess = False, as the main cell sets it: no     *)
(* entity is skipped.                                                      *)
(***************************************************************************)
InitAPI == Init /\ source = "api" /\ ~reprocess

NextAPI ==
    \/ CallGetData
    \/ RequestRaises
    \/ Non200
    \/ ParseFails
    \/ PageProcessed
    \/ PageFilterRaises
    \/ PageEmpty
    \/ HandleResult
    \/ WrapUp

SpecAPI == InitAPI /\ [][NextAPI]_vars /\ WF_vars(NextAPI)

(***************************************************************************)
(* Runs over every kind of candidate record.  The first page of entity 0   *)
(* holds one candidate drawn from all combinations of rating and text(s),  *)
(* followed by one that the filter admits; the other entities hold         *)
(* nothing.  The notebooks are the same, so Next is.                       *)
(***************************************************************************)
AllRatings == { Num(0), Num(1), Num(10), Num(11), NotANumber, NoRating }

AllWords == { "en", "fr", "digits", "spaces", "" }

AllComments ==
    { Comment(r, t) : r \in AllRatings,
                      t \in {NoText} \cup { Txt(w, m) : w \in AllWords, m \in BOOLEAN } }

AllCards ==
    { Card(r, ttl, txt) : r \in BOOLEAN,
                          ttl \in {NoText} \cup { Txt(w, FALSE) : w \in AllWords },
                          txt \in {NoText} \cup { Txt(w, FALSE) : w \in AllWords } }

InputSites ==
    IF source = "api"
    THEN { [e \in Entities |-> IF e = 0 THEN << <<c, cGood>> >> ELSE << >>] :
              c \in AllComments }
    ELSE { [e \in Entities |-> IF e = 0 THEN << Page(TRUE, <<c, hGood>>) >>
                                         ELSE << Page(TRUE, << >>) >>] :
              c \in AllCards }

InitInputs ==
    /\ source \in {"api", "html"}
    /\ site \in InputSites
    /\ pc = "loop"
    /\ index = 0
    /\ reprocess \in (IF source = "api" THEN BOOLEAN ELSE {FALSE})
    /\ reprocessIndex = 0
    /\ reprocessIDs \in SUBSET {GameID(i) : i \in Entities}
    /\ (~reprocess => reprocessIDs = {})
    /\ totalSaved = 0
    /\ checkCount = 0
    /\ gameReviews = NoneResult
    /\ all_reviews = << >>
    /\ outputFile = << >>
    /\ pgCount = 1
    /\ reviewData = << >>
    /\ gameName = EmptyName
    /\ keepGoing = FALSE
    /\ requestErrorCount = 0
    /\ current = -1
    /\ invoked = {}
    /\ skipped = {}
    /\ fetches = 0
    /\ consec = 0
    /\ ended = ""
    /\ transport = 0
    /\ lastFetch = ""
    /\ lastPage = 0
    /\ failed = FALSE
    /\ run = 1
    /\ url = NoUrl
    /\ reviews_data = << >>
    /\ business_name = Unbound
    /\ reviews = NoResult
    /\ lastEvent = ""
    /\ category = << >>
    /\ current_page_url = NoUrl
    /\ business_urls = << >>

SpecInputs == InitInputs /\ [][Next]_vars

(***************************************************************************)
(* The listing walk of the HTML notebook: scrape_category_page.  A card    *)
(* link of a category page is "reviewed" (it has a TrustScore image and    *)
(* its href holds /review/), "other" (a TrustScore image, another href) or *)
(* "zero" (no TrustScore image: the business has no review).  The url of a *)
(* link is its place << page, position >>.  A page has a next-page link    *)
(* exactly when it is not the last page of the category.                   *)
(***************************************************************************)
MaxListingPages == 2
MaxLinks == 2

LinkKinds == { "reviewed", "other", "zero" }

\* The sequences of 0 .. n elements of S.
SeqsUpTo(S, n) == UNION { [1 .. m -> S] : m \in 0 .. n }

Categories ==
    { c \in SeqsUpTo(SeqsUpTo(LinkKinds, MaxLinks), MaxListingPages) : c # << >> }

\* "len(tst) == 0", taken into account for the first link of a page only.
IsSentinelFirst(link, pos) == link = "zero" /\ pos = 1

\* "len(tst) == 0": the link has no TrustScore image.
IsSentinel(link, pos) == link = "zero"

\* The "for link in soup.find_all(...)" loop from position pos on: the list after
\* it, and whether it returned from the function.
RECURSIVE ScanLinks(_, _, _, _)
ScanLinks(page, links, pos, acc) ==
    IF pos > Len(links) THEN [urls |-> acc, returned |-> FALSE]
    ELSE IF IsSentinel(links[pos], pos) THEN [urls |-> acc, returned |-> TRUE]
    ELSE ScanLinks(page, links, pos + 1,
                   IF links[pos] = "reviewed" THEN Append(acc, << page, pos >>)
                   ELSE acc)

\* What no turn of scrape_category_page touches.
walkFrame == << source, site, apiMain, all_reviews, outputFile, apiLocals,
                htmlLocals, current, invoked, skipped, ended, run, category >>

\* One turn of "while current_page_url" on the page the response holds.
WalkProcess(links, hasNext) ==
    LET r == ScanLinks(current_page_url, links, 1, business_urls)
    IN  /\ business_urls' = r.urls
        /\ IF ~r.returned /\ hasNext
           THEN /\ current_page_url' = current_page_url + 1
                /\ sleep("listing")
                /\ UNCHANGED pc
           ELSE /\ pc' = "walked"
                /\ NoSleep
                /\ UNCHANGED current_page_url

\* The category page is fetched; response.status_code is not looked at.
WalkPage ==
    /\ pc = "walk"
    /\ WalkProcess(category[current_page_url], current_page_url < Len(category))
    /\ Fetched("ok", current_page_url)
    /\ UNCHANGED walkFrame

\* The server answers with an error status: its body, which holds no card link
\* and no next-page link, is parsed like a page.
WalkErrorStatus ==
    /\ pc = "walk"
    /\ WalkProcess(<< >>, FALSE)
    /\ Fetched("status", current_page_url)
    /\ UNCHANGED walkFrame

\* requests.get raises: nothing in the function or around its call catches it.
WalkRaises ==
    /\ pc = "walk"
    /\ pc' = "crashed"
    /\ NoSleep
    /\ Fetched("raise", current_page_url)
    /\ UNCHANGED << walkFrame, current_page_url, business_urls >>

\* business_urls = scrape_category_page(start_url): the function's first lines.
InitListing ==
    /\ source = "html"
    /\ site = [e \in Entities |-> << Page(TRUE, << >>) >>]
    /\ pc = "walk"
    /\ category \in Categories
    /\ current_page_url = 1
    /\ business_urls = << >>
    /\ index = 0
    /\ reprocess = FALSE
    /\ reprocessIndex = 0
    /\ reprocessIDs = {}
    /\ totalSaved = 0
    /\ checkCount = 0
    /\ gameReviews = NoneResult
    /\ all_reviews = << >>
    /\ outputFile = << >>
    /\ pgCount = 1
    /\ reviewData = << >>
    /\ gameName = EmptyName
    /\ keepGoing = FALSE
    /\ requestErrorCount = 0
    /\ current = -1
    /\ invoked = {}
    /\ skipped = {}
    /\ fetches = 0
    /\ consec = 0
    /\ ended = ""
    /\ transport = 0
    /\ lastFetch = ""
    /\ lastPage = 0
    /\ failed = FALSE
    /\ run = 1
    /\ url = NoUrl
    /\ reviews_data = << >>
    /\ business_name = Unbound
    /\ reviews = NoResult
    /\ lastEvent = ""

NextListing ==
    \/ WalkPage
    \/ WalkErrorStatus
    \/ WalkRaises

SpecListing == InitListing /\ [][NextListing]_vars

(***************************************************************************)
(* Vocabulary of the properties.                                           *)
(***************************************************************************)
IsPrefix(a, b) == Len(a) <= Len(b) /\ SubSeq(b, 1, Len(a)) = a

Last(seq) == seq[Len(seq)]

\* The records the filter admits from pages 1 .. n of entity e, in order.
RECURSIVE AcceptedUpTo(_, _)
AcceptedUpTo(e, n) ==
    IF n = 0 THEN << >>
    ELSE IF source = "api"
    THEN FilterComments(CommentsAt(e, n), AcceptedUpTo(e, n - 1)).reviewData
    ELSE FilterCards(site[e][n].cards, AcceptedUpTo(e, n - 1))

\* Pages of the current invocation that were fetched and processed to their end.
OkPages ==
    IF source = "api" THEN pgCount - 1
    ELSE IF url = NoUrl THEN Len(site[current]) ELSE url - 1

\* The invocation was ended by a failure (ABORTED), not by the end of the pages.
ErrorEnded == ended \in {"ceiling", "exception", "break"}

\* The invocation is over and the coordinator has not yet handled its outcome.
DriverOver == pc \in {"handle", "crashed"}

\* The invocation handed a ParentResult (not None, not an exception) back.
ReturnedResult == pc = "handle" /\ (source = "api" => ~gameReviews.none)

RetReviews == IF source = "api" THEN gameReviews.reviews ELSE reviews.reviews

\* The coordinator is done with the entity the driver was last invoked on.
EntityHandled == pc \in {"loop", "interrupted", "finished"} /\ current # -1

\* C1: when an invocation is ended by errors after one or more pages were
\* processed, the records accepted from those pages are returned to the
\* coordinator and, if there are any, appended to the buffer.
InvC1 ==
    /\ (DriverOver /\ ErrorEnded /\ OkPages >= 1)
          => (ReturnedResult /\ IsPrefix(AcceptedUpTo(current, OkPages), RetReviews))
    /\ (EntityHandled /\ ErrorEnded /\ OkPages >= 1
            /\ AcceptedUpTo(current, OkPages) # << >>)
          => (/\ all_reviews # << >>
              /\ IsPrefix(AcceptedUpTo(current, OkPages), Last(all_reviews).reviews))

\* C2: the driver is ended by its error counter only when 3 failures occurred
\* with no successfully processed page between them.
InvC2 == (ended = "ceiling") => (consec >= ErrorCeiling)

\* C3: when every fetch of an invocation fails in transport, the driver makes
\* exactly 3 fetches and then ends in ABORTED: never more than 3, and not fewer
\* once it is over.
InvC3 ==
    (fetches >= 1 /\ transport = fetches)
        => (/\ fetches <= ErrorCeiling
            /\ (pc # "driver" => (fetches = ErrorCeiling /\ ErrorEnded)))

\* C4: an invocation ends by returning a ParentResult: it never raises to the
\* coordinator and never returns None.
InvC4 == pc # "crashed" /\ (DriverOver => ReturnedResult)

\* C5: when the run is over, the driver has been invoked on every entity that
\* resume mode did not skip.
InvC5 ==
    (pc \in {"finished", "crashed"})
        => (\A e \in Entities : e \notin skipped => e \in invoked)

\* C6: an entity is skipped exactly when resume mode is on, its index is before
\* the cutoff and its identifier is not in the identifier set.
InvC6 ==
    \A i \in invoked \cup skipped :
        (i \in skipped)
            <=> (reprocess /\ i < reprocessIndex /\ GameID(i) \notin reprocessIDs)

\* The buffer of one run over the whole list in which nothing fails.
ExpectedBuffer ==
    { [game_name |-> NameOf(e), reviews |-> AcceptedUpTo(e, Len(site[e]))] :
        e \in {x \in Entities : AcceptedUpTo(x, Len(site[x])) # << >>} }

\* C7: a run stopped at index k and re-executed in resume mode from k on ends with
\* the buffer (as a set) of one uninterrupted run; stated for sessions in which
\* no request and no page failed.
InvC7 ==
    (pc = "finished" /\ run = 2 /\ ~failed)
        => ({all_reviews[i] : i \in DOMAIN all_reviews} = ExpectedBuffer)

\* The candidate records of page pg of entity e.
Candidates(e, pg) ==
    IF source = "api" THEN CommentsAt(e, pg) ELSE site[e][pg].cards

\* The invocation's latest request fetched a page that holds no candidate record.
ZeroPageFetched ==
    /\ current # -1 /\ lastFetch = "ok" /\ lastPage >= 1
    /\ Candidates(current, lastPage) = << >>

\* C8 (as claimed): once a fetched page yields zero candidates, the driver is in
\* DONE, fetches no further page, and returns the records accumulated before it.
InvC8 ==
    ZeroPageFetched
        => (/\ pc # "driver"
            /\ ended = "done"
            /\ (DriverOver => ReturnedResult)
            /\ RetReviews = AcceptedUpTo(current, lastPage - 1))

\* C8 (amended): the above for the API driver; the HTML driver goes on after a
\* fetched page exactly when the page is not the entity's last one (it has a
\* next-page link), whether or not the page holds review cards.
ThmC8 ==
    /\ (source = "api" /\ ZeroPageFetched)
          => (/\ pc # "driver"
              /\ ended = "done"
              /\ ~gameReviews.none
              /\ gameReviews.reviews = AcceptedUpTo(current, lastPage - 1))
    /\ (source = "html" /\ current # -1 /\ lastFetch = "ok")
          => ((pc = "driver") <=> (lastPage < Len(site[current])))

\* An API invocation that met its empty page after it had accumulated records.
WitC8 ==
    /\ source = "api" /\ ZeroPageFetched /\ pc = "handle"
    /\ lastPage > 1 /\ gameReviews.reviews # << >>

\* C9: every ParentResult in the buffer holds at least one record.
InvC9 == \A i \in DOMAIN all_reviews : Len(all_reviews[i].reviews) > 0

\* A result without records was handled (and left out) while the buffer holds
\* the result of another entity.
WitC9 ==
    /\ EntityHandled /\ ended = "done" /\ RetReviews = << >>
    /\ (source = "api" => ~gameReviews.none)
    /\ all_reviews # << >>

\* The records of the buffer entries from position i on that the file lacks.
RECURSIVE UnflushedFrom(_)
UnflushedFrom(i) ==
    IF i > Len(all_reviews) THEN 0
    ELSE (IF i <= Len(outputFile) /\ outputFile[i] = all_reviews[i]
          THEN 0 ELSE Len(all_reviews[i].reviews))
         + UnflushedFrom(i + 1)

Unflushed == UnflushedFrom(1)

\* C10 (as claimed): each time the coordinator has handled an entity, fewer than
\* checkThreshold records of the buffer are missing from the checkpoint.
InvC10 == EntityHandled => (Unflushed < checkThreshold)

\* C10 (amended): the above for the API coordinator, whose unflushed records
\* are the checkCount records accepted since the last flush; the HTML
\* coordinator writes nothing before the run is complete.
ThmC10 ==
    /\ (source = "api" /\ EntityHandled)
          => (/\ Unflushed < checkThreshold
              /\ (pc = "loop" => Unflushed = checkCount))
    /\ (source = "html" /\ pc # "finished") => (outputFile = << >>)

\* The API coordinator after a flush on the threshold, with records accepted
\* since.
WitC10 ==
    /\ source = "api" /\ pc = "loop"
    /\ outputFile # << >> /\ checkCount > 0

\* C11: once the coordinator has gone through the whole entity list and the run
\* is complete, the checkpoint holds the entire buffer, whatever the outcomes
\* of the entities were.
InvC11 == (pc = "finished") => (outputFile = all_reviews)

\* A complete run in which an invocation was ended by errors, an entity gave
\* nothing to the buffer, and the records of the buffer were below the threshold.
WitC11 ==
    /\ pc = "finished" /\ failed /\ ErrorEnded
    /\ Len(all_reviews) = 1 /\ Cardinality(invoked) = NumEntities
    /\ Len(all_reviews[1].reviews) < checkThreshold

\* A text field that is not empty once trimmed and whose words are English.
NonEmptyEnglish(txt) == txt.present /\ txt.words = "en"

\* A rating that is numeric and within 1 to 10.
Eligible(rating) == rating.kind = "num" /\ rating.num >= 1 /\ rating.num <= 10

\* The QualityFilter predicate on an accepted record.
QualityOK(rec) ==
    IF source = "api"
    THEN Eligible(rec.rating) /\ NonEmptyEnglish(rec.review_text)
    ELSE /\ rec.rating
         /\ (NonEmptyEnglish(rec.review_title) \/ NonEmptyEnglish(rec.review_text))

AllOK(recs) == \A i \in DOMAIN recs : QualityOK(recs[i])

\* C12: every record held by a driver, by a returned result or by the buffer
\* satisfies the QualityFilter predicate.
InvC12 ==
    /\ AllOK(IF source = "api" THEN reviewData ELSE reviews_data)
    /\ AllOK(RetReviews)
    /\ \A i \in DOMAIN all_reviews : AllOK(all_reviews[i].reviews)

\* The buffer of a complete HTML run holds a record admitted for its English
\* text, its title being in another language.
WitC12 ==
    /\ source = "html" /\ pc = "finished" /\ all_reviews # << >>
    /\ \E i \in DOMAIN all_reviews[1].reviews :
          /\ all_reviews[1].reviews[i].review_title.words = "fr"
          /\ all_reviews[1].reviews[i].review_text.words = "en"

\* The admission rule for an HTML candidate: a rating, and a title or a text that
\* is non-empty after trimming and English; a field whose detection fails counts
\* as not English.
RuleAdmits(card) ==
    /\ card.rating
    /\ (NonEmptyEnglish(Strip(card.title)) \/ NonEmptyEnglish(Strip(card.text)))

RECURSIVE RuleCards(_, _)
RuleCards(cards, acc) ==
    IF cards = << >> THEN acc
    ELSE RuleCards(Tail(cards),
             IF RuleAdmits(Head(cards))
             THEN Append(acc, [rating |-> Head(cards).rating,
                               review_title |-> Strip(Head(cards).title),
                               review_text |-> Strip(Head(cards).text)])
             ELSE acc)

RECURSIVE RuleUpTo(_, _)
RuleUpTo(e, n) ==
    IF n = 0 THEN << >> ELSE RuleCards(site[e][n].cards, RuleUpTo(e, n - 1))

\* C13: the records an HTML invocation returns after it read all the pages of
\* its entity are those of the cards the admission rule admits: a card is
\* admitted if and only if it has a rating and its title or its text is
\* non-empty and English.
InvC13 ==
    (source = "html" /\ pc = "handle" /\ ended = "done" /\ lastFetch = "ok")
        => (reviews.reviews = RuleUpTo(current, Len(site[current])))

\* The driver's step fetched a page of candidate records: the response came with
\* a good status and was parsed.
PageOfCandidates ==
    /\ pc = "driver" /\ fetches' = fetches + 1
    /\ lastFetch' \in {"ok", "filter"}
    /\ Candidates(current, lastPage') # << >>

\* C14: a failure raised while one candidate of a page is filtered rejects that
\* candidate only: the step that fetched the page does not count an error, and
\* it leaves the page behind (with the next cursor, or by ending the invocation),
\* holding the records of the page's other admitted candidates.
InvC14 ==
    [][ PageOfCandidates
          => IF source = "api"
             THEN /\ requestErrorCount' = requestErrorCount
                  /\ pgCount' = pgCount + 1
             ELSE /\ url' # url
                  /\ reviews_data' = FilterCards(site[current][url].cards, reviews_data)
      ]_vars

\* The comments of a page whose rating is eligible, in page order.
RECURSIVE EligibleOnly(_)
EligibleOnly(comments) ==
    IF comments = << >> THEN << >>
    ELSE IF Eligible(Head(comments).rating)
    THEN << Head(comments) >> \o EligibleOnly(Tail(comments))
    ELSE EligibleOnly(Tail(comments))

\* The language step alone, applied to comments in order: the records appended
\* to acc, and whether a comment without text stopped it.
RECURSIVE LanguageFilter(_, _)
LanguageFilter(comments, acc) ==
    IF comments = << >> THEN [reviewData |-> acc, raised |-> FALSE]
    ELSE LET c == Head(comments)
         IN  IF ~c.text.present THEN [reviewData |-> acc, raised |-> TRUE]
             ELSE LanguageFilter(Tail(comments),
                      IF c.text.words = "en"
                      THEN Append(acc, [rating |-> c.rating,
                                        review_text |-> Txt(c.text.words, FALSE)])
                      ELSE acc)

\* C15: the API driver hands to the language step exactly the comments whose
\* rating is numeric and in 1 .. 10 (1 and 10 included); a comment with another
\* rating is left out as if the page did not hold it: no error is counted for it
\* and the comments after it are processed.
ThmC15 ==
    [][ (source = "api" /\ PageOfCandidates)
          => LET r == LanguageFilter(EligibleOnly(CommentsAt(current, pgCount)),
                                     reviewData)
             IN  /\ reviewData' = r.reviewData
                 /\ (requestErrorCount' = requestErrorCount) <=> ~r.raised
                 /\ (pgCount' = pgCount + 1) <=> ~r.raised
      ]_vars

\* A page whose first comment has the rating 11 and an English text was
\* processed: only the comment after it gave a record, with no error counted.
WitC15 ==
    /\ source = "api" /\ current = 0 /\ pc = "driver" /\ pgCount = 2
    /\ site[0][1][1].rating = Num(11) /\ site[0][1][1].text.words = "en"
    /\ Len(reviewData) = 1 /\ requestErrorCount = 0

\* The records the current invocation has accumulated.
Accumulated == IF source = "api" THEN reviewData ELSE reviews_data

\* C16: a response with a status outside the success range is a failed fetch: it
\* adds no record, it never ends the invocation as a clean end of the pages, and
\* the API driver counts it toward the error ceiling.
InvC16 ==
    [][ (pc = "driver" /\ fetches' = fetches + 1 /\ lastFetch' = "status")
          => /\ Accumulated' = Accumulated
             /\ ended' # "done"
             /\ (source = "api" => requestErrorCount' = requestErrorCount + 1)
      ]_vars

\* The coordinator calls the driver.
DriverCalled == pc = "loop" /\ pc' = "driver"

\* C17 (as claimed): the driver is invoked on entities in non-decreasing order of
\* expected volume.
InvC17 ==
    [][ DriverCalled => \A d \in invoked : Volume(d) <= Volume(current') ]_vars

\* C17 (amended): the HTML coordinator invokes the driver in non-decreasing order
\* of expected volume; the API coordinator follows its list, which is sorted by
\* volume in descending order, so it invokes the driver in non-increasing order.
ThmC17 ==
    [][ DriverCalled
          => \A d \in invoked :
                IF source = "html" THEN Volume(d) <= Volume(current')
                                   ELSE Volume(d) >= Volume(current') ]_vars

\* The HTML driver is at work on the last entity of the run, every other entity
\* having been processed before.
WitC17 ==
    /\ source = "html" /\ pc = "driver"
    /\ invoked = Entities /\ current = 0

\* C18: once an entity has been processed, the coordinator has made its
\* inter-entity wait, whatever the driver returned, and no request is made
\* between that wait and the first fetch of the next entity.
ThmC18 ==
    /\ EntityHandled => (lastEvent = "entity")
    /\ (pc = "driver" /\ fetches = 0 /\ invoked # {current}) => (lastEvent = "entity")

\* The API driver is about to make its first fetch for an entity, the entity
\* before it having ended without a result (None).
WitC18 ==
    /\ source = "api" /\ pc = "driver" /\ fetches = 0
    /\ gameReviews.none /\ invoked # {current} /\ failed

\* A step of the driver: one request and what the driver does with its outcome.
DriverStep == pc = "driver" /\ fetches' = fetches + 1

\* C19 (as claimed): a step of the driver ends with an inter-page wait exactly
\* when its page was processed successfully and the driver goes on to a next
\* page; no inter-page wait precedes the first fetch of an entity.
InvC19 ==
    [][ DriverStep
          => /\ (lastEvent' = "page") <=> (lastFetch' = "ok" /\ pc' = "driver")
             /\ (fetches = 0 => lastEvent # "page") ]_vars

\* C19 (amended): the above for the API driver; a step of the HTML driver ends
\* with an inter-page wait exactly when the request raised no exception,
\* whether or not the page has a next-page link.
ThmC19 ==
    [][ DriverStep
          => /\ (lastEvent' = "page")
                    <=> IF source = "api" THEN lastFetch' = "ok" /\ pc' = "driver"
                                          ELSE lastFetch' # "raise"
             /\ (fetches = 0 => lastEvent # "page") ]_vars

\* The HTML driver returned after the last of two or more pages, and its latest
\* act was an inter-page wait.
WitC19 ==
    /\ source = "html" /\ pc = "handle" /\ ended = "done"
    /\ lastFetch = "ok" /\ fetches >= 2 /\ lastEvent = "page"

\* The links of the category in page order and in-page position order.
RECURSIVE LinksFrom(_, _)
LinksFrom(page, pos) ==
    IF page > Len(category) THEN << >>
    ELSE IF pos > Len(category[page]) THEN LinksFrom(page + 1, 1)
    ELSE << [page |-> page, pos |-> pos, kind |-> category[page][pos]] >>
            \o LinksFrom(page, pos + 1)

\* The places of links where an entity without reviews stands.
ZeroPlaces(links) == { i \in DOMAIN links : links[i].kind = "zero" }

\* The place in links of the first entity without reviews (one past the end
\* when every entity has reviews).
FirstZero(links) ==
    LET zeros == ZeroPlaces(links)
    IN  IF zeros = {} THEN Len(links) + 1
        ELSE CHOOSE i \in zeros : \A j \in zeros : i <= j

\* The urls of the review-page entities among the first n of links.
RECURSIVE ReviewedBefore(_, _)
ReviewedBefore(links, n) ==
    IF n = 0 THEN << >>
    ELSE IF links[n].kind = "reviewed"
    THEN Append(ReviewedBefore(links, n - 1), << links[n].page, links[n].pos >>)
    ELSE ReviewedBefore(links, n - 1)

\* C20: the walk never fetches a category page after the one that holds the
\* first entity without reviews, and, every page it asked for having been
\* served, it returns exactly the review-page entities that come before that
\* entity, in page order and position order.
ThmC20 ==
    LET links == LinksFrom(1, 1)
        first == FirstZero(links)
        firstPage == IF first > Len(links) THEN Len(category) ELSE links[first].page
    IN  /\ lastPage <= firstPage
        /\ (pc = "walked" /\ ~failed)
              => (/\ business_urls = ReviewedBefore(links, first - 1)
                  /\ lastPage = firstPage)

\* A walk ended by an entity without reviews that is the second link of the
\* first page, the category having a page after it.
WitC20 ==
    /\ pc = "walked" /\ ~failed /\ Len(category) = 2 /\ lastPage = 1
    /\ category[1] = << "reviewed", "zero" >> /\ business_urls = << << 1, 1 >> >>

\* A step in which the buffer is written to the file: the wrap-up cell, the save
\* cell, or the handling of a result that brings checkCount to the threshold.
FlushStep ==
    \/ pc # "finished" /\ pc' = "finished"
    \/ /\ source = "api" /\ pc = "handle" /\ pc' = "loop"
       /\ ~gameReviews.none /\ HasReviews(gameReviews)
       /\ checkCount + Len(gameReviews.reviews) >= checkThreshold

\* C21: a flush makes the file equal to the whole buffer, whatever the file held
\* before, and does not change the buffer (the only change of the buffer in a
\* step with a flush is the append that preceded the flush); a flush of a
\* buffer the file already equals leaves the file as it is.
ThmC21 ==
    [][ FlushStep
          => /\ outputFile' = all_reviews'
             /\ \/ all_reviews' = all_reviews
                \/ pc = "handle" /\ all_reviews' = Append(all_reviews, Entry(gameReviews))
             /\ (outputFile = all_reviews /\ all_reviews' = all_reviews)
                    => (outputFile' = outputFile) ]_vars

\* The wrap-up cell has flushed a buffer that a flush on the threshold had
\* written before, with no append between the two.
WitC21 ==
    /\ source = "api" /\ pc = "finished" /\ checkCount = 0
    /\ all_reviews # << >> /\ outputFile = all_reviews

\* C22: the cursor of the API driver is 1 when the driver is called; a step of
\* the driver adds exactly 1 to it when it processed a page with comments to its
\* end, and leaves it as it is otherwise (failed request, status, parse or
\* filtering, and the page without comments); the page a step asks for is the
\* cursor, so no page is skipped and a failed page is asked for again.
ThmC22 ==
    [][ /\ (source = "api" /\ DriverCalled) => (pgCount' = 1)
        /\ (source = "api" /\ DriverStep)
              => /\ lastPage' = pgCount
                 /\ pgCount' = IF lastFetch' = "ok" /\ CommentsAt(current, pgCount) # << >>
                               THEN pgCount + 1 ELSE pgCount ]_vars

\* The API driver is at cursor 2 after a request for page 2 that failed.
WitC22 ==
    /\ source = "api" /\ pc = "driver" /\ pgCount = 2
    /\ lastPage = 2 /\ lastFetch \in {"status", "parse"}

\* The result the driver handed back, as the coordinator stores it.
ReturnedEntry == IF source = "api" THEN Entry(gameReviews) ELSE reviews

\* C23 (as claimed): every step leaves the buffer as it is or appends one
\* ParentResult to it; the entries it holds are never removed, reordered or
\* modified.
InvC23 ==
    [][ \/ all_reviews' = all_reviews
        \/ all_reviews' = Append(all_reviews, ReturnedEntry) ]_vars

\* A step of the main loop, of the driver, or a flush: every step but the one of
\* the HTML notebook's clean-up cell.
RunStep == pc' # "cleaned"

\* C23 (amended): a step of the main loop leaves the buffer as it is or appends
\* one ParentResult to it, and it appends only when the coordinator handles the
\* result of an entity, which it does once per processed entity; the flushes
\* leave the buffer as it is; the clean-up cell of the HTML notebook, run between
\* the loop and the save, changes the names of the entries and nothing else.
ThmC23 ==
    [][ IF RunStep
        THEN \/ all_reviews' = all_reviews
             \/ /\ pc = "handle" /\ index' = index + 1
                /\ all_reviews' = Append(all_reviews, ReturnedEntry)
        ELSE /\ Len(all_reviews') = Len(all_reviews)
             /\ \A i \in DOMAIN all_reviews :
                   all_reviews'[i].reviews = all_reviews[i].reviews ]_vars

\* The buffer holds the results of two entities, in the order of processing.
WitC23 ==
    /\ pc = "loop" /\ Len(all_reviews) = 2 /\ invoked = Entities
    /\ all_reviews[1] # all_reviews[2]

\* The parent name the current invocation holds.
DriverName == IF source = "api" THEN gameName ELSE business_name

\* C24: the parent name is read from the first page of the entity only: a step of
\* the driver on a later page leaves the name as it is, also when no record has
\* been accepted so far.
InvC24 ==
    [][ (DriverStep /\ lastPage' > 1) => (DriverName' = DriverName) ]_vars

\* The pages of the entity the current invocation processed to their end.
DonePages ==
    IF source = "api" THEN pgCount - 1
    ELSE IF lastFetch = "ok" THEN lastPage ELSE lastPage - 1

\* C25: the records of a returned ParentResult are the admitted candidates of the
\* pages of the entity in cursor order, each once: they start with those of the
\* pages the driver processed to their end, and they are a prefix of those of all
\* the pages of the entity.
InvC25 ==
    (pc = "handle" /\ ReturnedResult)
        => (/\ IsPrefix(AcceptedUpTo(current, DonePages), RetReviews)
            /\ IsPrefix(RetReviews, AcceptedUpTo(current, Len(site[current]))))

\* C26: an invocation of the API driver makes at most as many fetches as its
\* entity has pages with comments, plus 3, and it ends: the driver hands back a
\* result after the page without comments (DONE), after the third error
\* (ABORTED), or after a request that raised (None).
ThmC26 ==
    /\ [](current # -1 => fetches <= Len(site[current]) + ErrorCeiling)
    /\ (pc = "driver") ~> (pc = "handle" /\ ended \in {"done", "ceiling", "exception"})

\* An invocation that ended with as many fetches as the bound allows: every page
\* with comments, two failures and the page without comments.
WitC26 ==
    /\ pc = "handle" /\ ended = "done" /\ Len(site[current]) >= 1
    /\ fetches = Len(site[current]) + ErrorCeiling

\* C27: the file holds a prefix of the buffer: the entries of a flush, in the
\* order of the buffer, none of them absent from the buffer, and nothing of the
\* result the driver is building.
InvC27 == IsPrefix(outputFile, all_reviews)

\* The file holds the entries of a flush on the threshold, and the API driver is
\* building the result of the next entity.
WitC27 ==
    /\ source = "api" /\ pc = "driver" /\ outputFile # << >>
    /\ reviewData # << >> /\ IsPrefix(outputFile, all_reviews)

====
